---------------------------- MODULE Spec2Model ----------------------------
(***************************************************************************)
(* Model of kholst: the SlangCompiler shader-compilation adapter           *)
(* (src/render/shader/compiler/compiler.{h,cpp}) and the WindowApp demo    *)
(* program that drives it (src/main.cpp).                                  *)
(*                                                                         *)
(* The Slang library and the lvk/GLFW libraries are external: every call   *)
(* into them is a nondeterministic choice over the results their API can   *)
(* hand back (success or failure, a diagnostics blob or none, a code blob  *)
(* of some byte size).                                                     *)
(*                                                                         *)
(* Two specifications:                                                     *)
(*   Spec      the SlangCompiler object under an arbitrary caller          *)
(*   MainSpec  the program main() of main.cpp                              *)
(***************************************************************************)
EXTENDS Integers, Sequences, FiniteSets

(***************************************************************************)
(* Bounds of the model.                                                    *)
(***************************************************************************)
\* number of public SlangCompiler calls one behaviour makes
MaxCalls == 2
\* largest byte size of the code blob getEntryPointCode hands back
MaxBlobBytes == 4
\* number of iterations of the render loop one behaviour makes
MaxFrames == 2
\* number of diagnostics blobs the Slang library hands back during one public call
MaxDiags == 1

(***************************************************************************)
(* Program constants.                                                      *)
(***************************************************************************)
CUBE_TRIANGLES == 36
WordBytes == 4
SLANG_CUBE_PATH == "src/shaders/cube.slang"

Targets == {"SLANG_SPIRV", "SLANG_GLSL"}
EntryPoints == {"cubeVertex", "cubeFragment"}
\* SLANG_STAGE_VERTEX, SLANG_STAGE_FRAGMENT
Stages == {"vertex", "fragment"}

(***************************************************************************)
(* Strings.  A std::string is a sequence of pieces; operator+ and += are   *)
(* concatenation (\o), clear() gives the empty sequence.  Every piece      *)
(* carries the number of the public call, and the pipeline stage, during   *)
(* which it was produced, so that text of one call can be told from equal  *)
(* text of another.                                                        *)
(***************************************************************************)
Text(s, n, st) == <<[text |-> s, call |-> n, stage |-> st]>>

(***************************************************************************)
(* Slang::ComPtr<slang::IBlob>: null, or a blob holding text.              *)
(***************************************************************************)
NullBlob == [present |-> FALSE, text |-> <<>>]

DiagBlob(step, n, st) == [present |-> TRUE, text |-> Text(step, n, st)]

VARIABLES
    \* SlangCompiler members (compiler.h:51-54)
    globalSession, session, initialized, lastDiagnostics,
    \* the caller's out-parameters: the two code vectors and the error string
    outSpirv, outErrorMsg,
    \* position inside compileEntryPoint and its arguments
    pc, frame,
    \* the public call in progress or last returned (its name and, for
    \* initialize, its target argument), and its return value
    callNo, lastCall, ret,
    \* the compiler steps executed by that call, with what each handed back
    trace,
    \* the members and out-parameters as they were when that call began
    pre,
    \* number of library objects created so far
    created,
    \* WindowApp (main.cpp): position, members, log, command buffer, counters
    mpc, vert, frag, pipeline, wireframePipeline, logged, cmds,
    acquired, submitted, frames

compilerVars == <<globalSession, session, initialized, lastDiagnostics>>
callVars == <<outSpirv, outErrorMsg, pc, frame, callNo, lastCall, ret, trace, pre, created>>
mainVars == <<mpc, vert, frag, pipeline, wireframePipeline, logged, cmds,
              acquired, submitted, frames>>
vars == <<compilerVars, callVars, mainVars>>

NullSession == [id |-> 0, target |-> "none"]
NoFrame == [fn |-> "none", path |-> "", entry |-> "", fragmentEntry |-> "",
            stage |-> "none", out |-> "none", code |-> 0]
\* an lvk::Holder: empty, or the handle a create call returned; a shader module
\* handle remembers the byte size the program passed to createShaderModule
EmptyHandle == [set |-> FALSE, bytes |-> 0]

\* what a public call records when it begins
Snapshot ==
    [initialized |-> initialized, globalSession |-> globalSession,
     session |-> session, lastDiagnostics |-> lastDiagnostics,
     outSpirv |-> outSpirv, outErrorMsg |-> outErrorMsg, created |-> created]

Init ==
    /\ globalSession = 0
    /\ session = NullSession
    /\ initialized = FALSE
    /\ lastDiagnostics = <<>>
    /\ outSpirv = [vertSpirv |-> <<>>, fragSpirv |-> <<>>]
    /\ outErrorMsg = <<>>
    /\ pc = "idle"
    /\ frame = NoFrame
    /\ callNo = 0
    /\ lastCall = [fn |-> "none", target |-> "none"]
    /\ ret = FALSE
    /\ trace = <<>>
    /\ created = [global |-> 0, session |-> 0]
    /\ pre = [initialized |-> FALSE, globalSession |-> 0, session |-> NullSession,
              lastDiagnostics |-> <<>>, outSpirv |-> [vertSpirv |-> <<>>, fragSpirv |-> <<>>],
              outErrorMsg |-> <<>>, created |-> [global |-> 0, session |-> 0]]
    /\ mpc = "ctor"
    /\ vert = EmptyHandle
    /\ frag = EmptyHandle
    /\ pipeline = EmptyHandle
    /\ wireframePipeline = EmptyHandle
    /\ logged = <<>>
    /\ cmds = <<>>
    /\ acquired = 0
    /\ submitted = 0
    /\ frames = 0

\* a public call begins: it is numbered and the state it found is recorded
BeginCall(fn, target) ==
    /\ pc = "idle"
    /\ callNo < MaxCalls
    /\ callNo' = callNo + 1
    /\ lastCall' = [fn |-> fn, target |-> target]
    /\ pre' = Snapshot
    /\ trace' = <<>>

(***************************************************************************)
(* SlangCompiler::initialize (compiler.cpp:17-53)                          *)
(***************************************************************************)
\* mutant: the early return of an initialized compiler is missing
AlreadyInitializedUnchecked(init) == FALSE

\* compiler.cpp:19  if (initialized) return true;
AlreadyInitialized(init) == init

CreateGlobalSessionFailed(n) == Text("Failed to create Slang global session", n, "none")
CreateSessionFailed(n) == Text("Failed to create Slang session", n, "none")

\* gOk, sOk: whether createGlobalSession and createSession succeed.
\* ComPtr::writeRef() releases the pointer held before the library writes it,
\* so a failed creation leaves the pointer null.
Initialize(target, gOk, sOk) ==
    /\ BeginCall("initialize", target)
    /\ UNCHANGED <<outSpirv, outErrorMsg, pc, frame>>
    /\ IF AlreadyInitialized(initialized)
       THEN /\ ret' = TRUE
            /\ UNCHANGED <<compilerVars, created>>
       ELSE IF ~gOk
       THEN /\ globalSession' = 0
            /\ lastDiagnostics' = CreateGlobalSessionFailed(callNo')
            /\ ret' = FALSE
            /\ UNCHANGED <<session, initialized, created>>
       ELSE IF ~sOk
       THEN /\ globalSession' = created.global + 1
            /\ session' = NullSession
            /\ created' = [created EXCEPT !.global = @ + 1]
            /\ lastDiagnostics' = CreateSessionFailed(callNo')
            /\ ret' = FALSE
            /\ UNCHANGED initialized
       ELSE /\ globalSession' = created.global + 1
            /\ session' = [id |-> created.session + 1, target |-> target]
            /\ created' = [global |-> created.global + 1, session |-> created.session + 1]
            /\ initialized' = TRUE
            /\ ret' = TRUE
            /\ UNCHANGED lastDiagnostics

(***************************************************************************)
(* SlangCompiler::compileEntryPoint (compiler.cpp:98-308), one action per  *)
(* call into the library.  trace records each step executed, whether it    *)
(* succeeded, the diagnostics text the library handed back and, for the    *)
(* code blob, its byte size.                                               *)
(***************************************************************************)
Record(step, ok, blob, size) ==
    Append(trace, [stage |-> frame.stage, step |-> step, ok |-> ok,
                   diag |-> blob.text, size |-> size])

DiagCount == Cardinality({i \in DOMAIN trace : trace[i].diag # <<>>})

\* the diagnostics blobs a step of the current stage may hand back
DiagBlobs(step) ==
    IF DiagCount < MaxDiags
    THEN {NullBlob, DiagBlob(step, callNo, frame.stage)}
    ELSE {NullBlob}

\* compiler.cpp:127-133, 146-152  if (blob) lastDiagnostics = std::string(blob)
SetDiagnostics(diag, blob) == IF blob.present THEN blob.text ELSE diag

\* compiler.cpp:176-183, 198-205, 278-285  if (blob) lastDiagnostics += diag
AppendDiagnostics(diag, blob) == IF blob.present THEN diag \o blob.text ELSE diag

\* mutant: only the diagnostics are stored, without the text naming the step
ErrorMsgDiagnosticsOnly(step, path, entry, diag, n, st) == diag

\* the message stored in outErrorMsg when a step fails
\* (compiler.cpp:112, 137, 156, 187, 209, 289, 300)
ErrorMsg(step, path, entry, diag, n, st) ==
    CASE step = "open"    -> Text("Failed to open shader file: ", n, st) \o Text(path, n, st)
      [] step = "load"    -> Text("Failed to load module: ", n, st) \o Text(path, n, st)
                               \o Text("\n", n, st) \o diag
      [] step = "find"    -> Text("Failed to find entry point: ", n, st) \o Text(entry, n, st)
                               \o Text(" in ", n, st) \o Text(path, n, st)
                               \o Text("\n", n, st) \o diag
      [] step = "compose" -> Text("Failed to compose program\n", n, st) \o diag
      [] step = "link"    -> Text("Failed to link program\n", n, st) \o diag
      [] step = "getCode" -> Text("Failed to get compiled code\n", n, st) \o diag
      [] step = "copy"    -> Text("Invalid SPIRV size (not multiple of 4 bytes)", n, st)

\* mutant: the result of the vertex stage is not tested
ContinueToFragmentAlways(fn, stage, ok) ==
    fn = "compileVertexFragment" /\ stage = "vertex"

\* compiler.cpp:88-95  the fragment stage follows a vertex stage that returned true
ContinueToFragment(fn, stage, ok) ==
    fn = "compileVertexFragment" /\ stage = "vertex" /\ ok

\* compileEntryPoint returns ok to compileToSPIRV (compiler.cpp:69) or to
\* compileVertexFragment (compiler.cpp:88-95)
Return(ok) ==
    IF ContinueToFragment(frame.fn, frame.stage, ok)
    THEN /\ pc' = "open"
         /\ frame' = [frame EXCEPT !.stage = "fragment", !.entry = frame.fragmentEntry,
                                   !.out = "fragSpirv", !.code = 0]
         /\ UNCHANGED ret
    ELSE /\ pc' = "idle"
         /\ frame' = NoFrame
         /\ ret' = ok

\* a step fails: the message is stored and compileEntryPoint returns false
Fail(step, diag) ==
    /\ outErrorMsg' = ErrorMsg(step, frame.path, frame.entry, diag, callNo, frame.stage)
    /\ Return(FALSE)

stepFixed == <<globalSession, session, initialized, callNo, lastCall, pre, created, mainVars>>

\* compiler.cpp:106-114
OpenFile ==
    /\ pc = "open"
    /\ \E opened \in BOOLEAN :
        /\ trace' = Record("open", opened, NullBlob, 0)
        /\ lastDiagnostics' = <<>>
        /\ IF ~opened
           THEN Fail("open", lastDiagnostics')
           ELSE /\ pc' = "load"
                /\ UNCHANGED <<frame, ret, outErrorMsg>>
    /\ UNCHANGED <<outSpirv, stepFixed>>

\* compiler.cpp:120-139
LoadModule ==
    /\ pc = "load"
    /\ \E module \in BOOLEAN, blob \in DiagBlobs("load diagnostics") :
        /\ trace' = Record("load", module, blob, 0)
        /\ lastDiagnostics' = SetDiagnostics(lastDiagnostics, blob)
        /\ IF ~module
           THEN Fail("load", lastDiagnostics')
           ELSE /\ pc' = "find"
                /\ UNCHANGED <<frame, ret, outErrorMsg>>
    /\ UNCHANGED <<outSpirv, stepFixed>>

\* compiler.cpp:141-158.  diagnosticsBlob.writeRef() releases the blob of the
\* load step, so the blob tested here is the one this step handed back.
FindEntryPoint ==
    /\ pc = "find"
    /\ \E entryPointObj \in BOOLEAN, blob \in DiagBlobs("entry point diagnostics") :
        /\ trace' = Record("find", entryPointObj, blob, 0)
        /\ lastDiagnostics' = SetDiagnostics(lastDiagnostics, blob)
        /\ IF ~entryPointObj
           THEN Fail("find", lastDiagnostics')
           ELSE /\ pc' = "compose"
                /\ UNCHANGED <<frame, ret, outErrorMsg>>
    /\ UNCHANGED <<outSpirv, stepFixed>>

\* compiler.cpp:160-190
Compose ==
    /\ pc = "compose"
    /\ \E ok \in BOOLEAN, blob \in DiagBlobs("compose diagnostics") :
        /\ trace' = Record("compose", ok, blob, 0)
        /\ lastDiagnostics' = AppendDiagnostics(lastDiagnostics, blob)
        /\ IF ~ok
           THEN Fail("compose", lastDiagnostics')
           ELSE /\ pc' = "link"
                /\ UNCHANGED <<frame, ret, outErrorMsg>>
    /\ UNCHANGED <<outSpirv, stepFixed>>

\* compiler.cpp:192-212; the reflection printout of lines 214-265 writes to
\* stdout only
Link ==
    /\ pc = "link"
    /\ \E ok \in BOOLEAN, blob \in DiagBlobs("link diagnostics") :
        /\ trace' = Record("link", ok, blob, 0)
        /\ lastDiagnostics' = AppendDiagnostics(lastDiagnostics, blob)
        /\ IF ~ok
           THEN Fail("link", lastDiagnostics')
           ELSE /\ pc' = "getCode"
                /\ UNCHANGED <<frame, ret, outErrorMsg>>
    /\ UNCHANGED <<outSpirv, stepFixed>>

\* the code blobs getEntryPointCode may hand back: none (-1) or one of a byte size
CodeBlobs == {-1} \cup (0 .. MaxBlobBytes)

\* compiler.cpp:267-292
GetEntryPointCode ==
    /\ pc = "getCode"
    /\ \E result \in BOOLEAN, spirvCode \in CodeBlobs, blob \in DiagBlobs("code diagnostics") :
        LET ok == result /\ spirvCode # -1 IN
        /\ trace' = Record("getCode", ok, blob, IF ok THEN spirvCode ELSE 0)
        /\ lastDiagnostics' = AppendDiagnostics(lastDiagnostics, blob)
        /\ IF ~ok
           THEN Fail("getCode", lastDiagnostics')
           ELSE /\ pc' = "copy"
                /\ frame' = [frame EXCEPT !.code = spirvCode]
                /\ UNCHANGED <<ret, outErrorMsg>>
    /\ UNCHANGED <<outSpirv, stepFixed>>

\* the bytes of a code blob of the given size: byte i holds i
BlobByte(i) == i % 256

\* mutant: the size test is missing
SpirvSizeUnchecked(spirvSize) == TRUE

\* compiler.cpp:298  spirvSize % 4 != 0
SpirvSizeValid(spirvSize) == spirvSize % WordBytes = 0

\* compiler.cpp:304-305  resize(spirvSize / 4); memcpy: word k is the
\* little-endian value of bytes 4k-3 .. 4k of the blob
CopySpirv(spirvSize) ==
    [k \in 1 .. (spirvSize \div WordBytes) |->
        BlobByte(4 * k - 3) + 256 * BlobByte(4 * k - 2)
          + 65536 * BlobByte(4 * k - 1) + 16777216 * BlobByte(4 * k)]

\* compiler.cpp:294-307
CopyOut ==
    /\ pc = "copy"
    /\ trace' = Record("copy", SpirvSizeValid(frame.code), NullBlob, frame.code)
    /\ IF ~SpirvSizeValid(frame.code)
       THEN /\ Fail("copy", lastDiagnostics)
            /\ UNCHANGED outSpirv
       ELSE /\ outSpirv' = [outSpirv EXCEPT ![frame.out] = CopySpirv(frame.code)]
            /\ Return(TRUE)
            /\ UNCHANGED outErrorMsg
    /\ UNCHANGED <<lastDiagnostics, stepFixed>>

\* compiler.cpp:310-313
GetLastDiagnostics == lastDiagnostics

(***************************************************************************)
(* The public compile calls (compiler.cpp:55-96)                           *)
(***************************************************************************)
\* mutant: the initialized test is missing
NotInitializedUnchecked(init) == FALSE

\* compiler.cpp:63, 81  if (!initialized)
NotInitialized(init) == ~init

NotInitializedMsg(n) == Text("Compiler not initialized", n, "none")

\* compiler.cpp:55-70
CompileToSPIRV(path, entry, stage) ==
    /\ BeginCall("compileToSPIRV", "none")
    /\ IF NotInitialized(initialized)
       THEN /\ outErrorMsg' = NotInitializedMsg(callNo')
            /\ ret' = FALSE
            /\ UNCHANGED <<pc, frame>>
       ELSE /\ pc' = "open"
            /\ frame' = [fn |-> "compileToSPIRV", path |-> path, entry |-> entry,
                         fragmentEntry |-> "", stage |-> stage,
                         out |-> IF stage = "vertex" THEN "vertSpirv" ELSE "fragSpirv", code |-> 0]
            /\ UNCHANGED <<ret, outErrorMsg>>
    /\ UNCHANGED <<compilerVars, outSpirv, created>>

\* compiler.cpp:72-96
CompileVertexFragment(path, vertexEntry, fragmentEntry) ==
    /\ BeginCall("compileVertexFragment", "none")
    /\ IF NotInitialized(initialized)
       THEN /\ outErrorMsg' = NotInitializedMsg(callNo')
            /\ ret' = FALSE
            /\ UNCHANGED <<pc, frame>>
       ELSE /\ pc' = "open"
            /\ frame' = [fn |-> "compileVertexFragment", path |-> path,
                         entry |-> vertexEntry, fragmentEntry |-> fragmentEntry,
                         stage |-> "vertex", out |-> "vertSpirv", code |-> 0]
            /\ UNCHANGED <<ret, outErrorMsg>>
    /\ UNCHANGED <<compilerVars, outSpirv, created>>

(***************************************************************************)
(* Spec: the SlangCompiler under an arbitrary caller.                      *)
(***************************************************************************)
CallInitialize ==
    /\ \E target \in Targets, gOk \in BOOLEAN, sOk \in BOOLEAN : Initialize(target, gOk, sOk)
    /\ UNCHANGED mainVars

CallCompileToSPIRV ==
    /\ \E entry \in EntryPoints, stage \in Stages : CompileToSPIRV(SLANG_CUBE_PATH, entry, stage)
    /\ UNCHANGED mainVars

CallCompileVertexFragment ==
    /\ CompileVertexFragment(SLANG_CUBE_PATH, "cubeVertex", "cubeFragment")
    /\ UNCHANGED mainVars

CompileStep ==
    \/ OpenFile
    \/ LoadModule
    \/ FindEntryPoint
    \/ Compose
    \/ Link
    \/ GetEntryPointCode
    \/ CopyOut

Next ==
    \/ CallInitialize
    \/ CallCompileToSPIRV
    \/ CallCompileVertexFragment
    \/ CompileStep

Spec == Init /\ [][Next]_vars

(***************************************************************************)
(* MainSpec: main() of main.cpp.  WindowApp's constructor runs initialize  *)
(* and initRender, then main calls run().                                  *)
(***************************************************************************)
LogLine(prefix, str, n) == Text(prefix, n, "none") \o str

\* main.cpp:22-35  WindowApp::WindowApp up to the call of initRender
CtorInitialize ==
    /\ mpc = "ctor"
    /\ \E gOk \in BOOLEAN, sOk \in BOOLEAN : Initialize("SLANG_SPIRV", gOk, sOk)
    /\ IF ~ret'
       THEN /\ logged' = Append(logged, LogLine("Failed to initialize Slang compiler: ",
                                                lastDiagnostics', callNo'))
            /\ mpc' = "run"
       ELSE /\ mpc' = "initRender"
            /\ UNCHANGED logged
    /\ UNCHANGED <<vert, frag, pipeline, wireframePipeline, cmds, acquired, submitted, frames>>

\* main.cpp:37-49  initRender calls compileVertexFragment
InitRenderCompile ==
    /\ mpc = "initRender"
    /\ CompileVertexFragment(SLANG_CUBE_PATH, "cubeVertex", "cubeFragment")
    /\ mpc' = "initRenderRet"
    /\ UNCHANGED <<vert, frag, pipeline, wireframePipeline, logged, cmds,
                   acquired, submitted, frames>>

\* main.cpp:57-69  createShaderModule({ data, size() * sizeof(uint32_t), ... })
CreateShaderModule(spirv) == [set |-> TRUE, bytes |-> Len(spirv) * WordBytes]

\* main.cpp:71-85  createRenderPipeline
CreateRenderPipeline(smVert, smFrag) == [set |-> TRUE, bytes |-> 0]

\* main.cpp:50-86  initRender after compileVertexFragment has returned
InitRenderReturn ==
    /\ mpc = "initRenderRet"
    /\ pc = "idle"
    /\ IF ~ret
       THEN /\ logged' = logged \o
                 << LogLine("Failed to compile shaders: ", outErrorMsg, callNo),
                    LogLine("Diagnostics: ", lastDiagnostics, callNo) >>
            /\ UNCHANGED <<vert, frag, pipeline, wireframePipeline>>
       ELSE /\ vert' = CreateShaderModule(outSpirv.vertSpirv)
            /\ frag' = CreateShaderModule(outSpirv.fragSpirv)
            /\ pipeline' = CreateRenderPipeline(vert', frag')
            /\ wireframePipeline' = CreateRenderPipeline(vert', frag')
            /\ UNCHANGED logged
    /\ mpc' = "run"
    /\ UNCHANGED <<compilerVars, callVars, cmds, acquired, submitted, frames>>

Cmd(name, label, handle, n) == [cmd |-> name, label |-> label, handle |-> handle, n |-> n]

\* mutant: the draw is issued before the pipeline is bound and repeated after it
DrawGroupDrawTwice(label, name, handle) ==
    << [cmd |-> "cmdPushDebugGroupLabel", label |-> label, handle |-> EmptyHandle, n |-> 0],
       [cmd |-> "cmdDraw", label |-> "", handle |-> EmptyHandle, n |-> CUBE_TRIANGLES],
       [cmd |-> "cmdBindRenderPipeline", label |-> name, handle |-> handle, n |-> 0],
       [cmd |-> "cmdDraw", label |-> "", handle |-> EmptyHandle, n |-> CUBE_TRIANGLES],
       [cmd |-> "cmdPopDebugGroupLabel", label |-> "", handle |-> EmptyHandle, n |-> 0] >>

\* main.cpp:116-122, 124-130  one labelled group: bind, push constants, draw
DrawGroup(label, name, handle) ==
    << Cmd("cmdPushDebugGroupLabel", label, EmptyHandle, 0),
       Cmd("cmdBindRenderPipeline", name, handle, 0),
       Cmd("cmdPushConstants", "p * m", EmptyHandle, 0),
       Cmd("cmdDraw", "", EmptyHandle, CUBE_TRIANGLES),
       Cmd("cmdPopDebugGroupLabel", "", EmptyHandle, 0) >>

\* main.cpp:90-99  the loop test, glfwPollEvents and the framebuffer size test
RunLoopHead ==
    /\ mpc = "run"
    /\ \E shouldClose \in BOOLEAN, zeroSize \in BOOLEAN :
        IF shouldClose
        THEN /\ mpc' = "done"
             /\ UNCHANGED frames
        ELSE /\ frames < MaxFrames
             /\ frames' = frames + 1
             /\ mpc' = IF zeroSize THEN "run" ELSE "acquire"
    /\ UNCHANGED <<compilerVars, callVars, vert, frag, pipeline, wireframePipeline,
                   logged, cmds, acquired, submitted>>

\* main.cpp:109
AcquireCommandBuffer ==
    /\ mpc = "acquire"
    /\ acquired' = acquired + 1
    /\ cmds' = <<>>
    /\ mpc' = "begin"
    /\ UNCHANGED <<compilerVars, callVars, vert, frag, pipeline, wireframePipeline,
                   logged, submitted, frames>>

\* main.cpp:111-114
CmdBeginRendering ==
    /\ mpc = "begin"
    /\ cmds' = Append(cmds, Cmd("cmdBeginRendering", "", EmptyHandle, 0))
    /\ mpc' = "cube"
    /\ UNCHANGED <<compilerVars, callVars, vert, frag, pipeline, wireframePipeline,
                   logged, acquired, submitted, frames>>

\* main.cpp:116-122
RenderCube ==
    /\ mpc = "cube"
    /\ cmds' = cmds \o DrawGroup("Render cube", "pipeline", pipeline)
    /\ mpc' = "wireframe"
    /\ UNCHANGED <<compilerVars, callVars, vert, frag, pipeline, wireframePipeline,
                   logged, acquired, submitted, frames>>

\* main.cpp:124-130
RenderWireframeCube ==
    /\ mpc = "wireframe"
    /\ cmds' = cmds \o DrawGroup("Render wireframe cube", "wireframePipeline", wireframePipeline)
    /\ mpc' = "end"
    /\ UNCHANGED <<compilerVars, callVars, vert, frag, pipeline, wireframePipeline,
                   logged, acquired, submitted, frames>>

\* main.cpp:132
CmdEndRendering ==
    /\ mpc = "end"
    /\ cmds' = Append(cmds, Cmd("cmdEndRendering", "", EmptyHandle, 0))
    /\ mpc' = "submit"
    /\ UNCHANGED <<compilerVars, callVars, vert, frag, pipeline, wireframePipeline,
                   logged, acquired, submitted, frames>>

\* main.cpp:134
Submit ==
    /\ mpc = "submit"
    /\ submitted' = submitted + 1
    /\ mpc' = "run"
    /\ UNCHANGED <<compilerVars, callVars, vert, frag, pipeline, wireframePipeline,
                   logged, cmds, acquired, frames>>

MainNext ==
    \/ CtorInitialize
    \/ InitRenderCompile
    \/ CompileStep
    \/ InitRenderReturn
    \/ RunLoopHead
    \/ AcquireCommandBuffer
    \/ CmdBeginRendering
    \/ RenderCube
    \/ RenderWireframeCube
    \/ CmdEndRendering
    \/ Submit

MainSpec == Init /\ [][MainNext]_vars

(***************************************************************************)
(* Properties.                                                             *)
(***************************************************************************)
CompileFns == {"compileToSPIRV", "compileVertexFragment"}

\* the characters of a string, without the provenance of its pieces
Plain(str) == [i \in DOMAIN str |-> str[i].text]

Contains(str, piece) == \E i \in DOMAIN str : str[i] = piece

\* a compile call has returned
CompileReturned == pc = "idle" /\ lastCall.fn \in CompileFns

StepOrder == <<"open", "load", "find", "compose", "link", "getCode", "copy">>

\* the place of a step in StepOrder
StepIndex(step) ==
    CASE step = "open" -> 1 [] step = "load" -> 2 [] step = "find" -> 3
      [] step = "compose" -> 4 [] step = "link" -> 5 [] step = "getCode" -> 6
      [] step = "copy" -> 7

LastStep == trace[Len(trace)]

\* the text that names a failed step
StepText(step) ==
    CASE step = "open"    -> "Failed to open shader file: "
      [] step = "load"    -> "Failed to load module: "
      [] step = "find"    -> "Failed to find entry point: "
      [] step = "compose" -> "Failed to compose program\n"
      [] step = "link"    -> "Failed to link program\n"
      [] step = "getCode" -> "Failed to get compiled code\n"
      [] step = "copy"    -> "Invalid SPIRV size (not multiple of 4 bytes)"

\* C1: if initialize fails in the constructor or compileVertexFragment fails in
\* initRender, run() acquires no command buffer, records no command and
\* submits no frame.
InitializationFailed ==
    \/ lastCall.fn = "initialize" /\ ~ret
    \/ lastCall.fn = "compileVertexFragment" /\ pc = "idle" /\ ~ret

C1_NoRenderingAfterFailure ==
    InitializationFailed => (acquired = 0 /\ submitted = 0 /\ cmds = <<>>)

\* C2: a compile call that returns false has assigned outErrorMsg, during that
\* call, a non-empty message that begins with the text naming the failed step
\* (or "Compiler not initialized" when no step ran); an initialize call that
\* returns false leaves getLastDiagnostics() non-empty.
C2_FailureHasMessage ==
    /\ (CompileReturned /\ ~ret) =>
          /\ outErrorMsg # <<>>
          /\ outErrorMsg[1].call = callNo
          /\ outErrorMsg[1].text # ""
          /\ outErrorMsg[1].text =
                IF trace = <<>> THEN "Compiler not initialized" ELSE StepText(LastStep.step)
          /\ (trace # <<>> => ~LastStep.ok)
    /\ (lastCall.fn = "initialize" /\ ~ret) =>
          /\ GetLastDiagnostics # <<>>
          /\ GetLastDiagnostics[1].call = callNo

C2_Witness ==
    /\ CompileReturned /\ ~ret
    /\ trace # <<>> /\ LastStep.step = "link"
    /\ pre.outErrorMsg = <<>>

\* C3: when a compile call returns, getLastDiagnostics() contains the
\* diagnostics text of every step the call executed.
C3_DiagnosticsAccumulated ==
    CompileReturned =>
        \A i \in DOMAIN trace : \A j \in DOMAIN trace[i].diag :
            Contains(GetLastDiagnostics, trace[i].diag[j])

\* the output vector of a stage, as compileVertexFragment and the callers of
\* compileToSPIRV in this model pass it
OutOf(stage) == IF stage = "vertex" THEN "vertSpirv" ELSE "fragSpirv"

\* the trace entries of the copy step
Copies == {i \in DOMAIN trace : trace[i].step = "copy"}

\* C4: the copy step succeeds exactly when the blob's byte size is divisible
\* by 4; then the output vector holds size/4 words (the blob's bytes), whose
\* byte size is the blob's, and that byte size is what initRender passes to
\* createShaderModule; otherwise the call returns false with the message
\* "Invalid SPIRV size (not multiple of 4 bytes)".
C4_WordSizedOutput ==
    /\ \A i \in Copies :
          /\ trace[i].ok <=> (trace[i].size % 4 = 0)
          /\ trace[i].ok =>
                /\ Len(outSpirv[OutOf(trace[i].stage)]) * 4 = trace[i].size
                /\ \A k \in DOMAIN outSpirv[OutOf(trace[i].stage)] :
                      outSpirv[OutOf(trace[i].stage)][k] =
                          (4 * k - 3) + 256 * (4 * k - 2) + 65536 * (4 * k - 1)
                            + 16777216 * (4 * k)
          /\ ~trace[i].ok =>
                /\ pc = "idle" /\ ~ret
                /\ Plain(outErrorMsg) = <<"Invalid SPIRV size (not multiple of 4 bytes)">>
    /\ vert.set =>
          \E i \in Copies : trace[i].stage = "vertex" /\ trace[i].ok
                            /\ vert.bytes = trace[i].size
    /\ frag.set =>
          \E i \in Copies : trace[i].stage = "fragment" /\ trace[i].ok
                            /\ frag.bytes = trace[i].size

C4_Witness ==
    /\ vert.set /\ vert.bytes = 4 /\ Len(outSpirv.vertSpirv) = 1
    /\ frag.set /\ frag.bytes = 0

IsRenderCmd(c) ==
    c.cmd \in {"cmdBeginRendering", "cmdBindRenderPipeline", "cmdDraw", "cmdEndRendering"}

\* the rendering commands of a command buffer: what is begun, bound, drawn, ended
Rendering(buf) ==
    LET r == SelectSeq(buf, IsRenderCmd)
    IN  [i \in DOMAIN r |-> <<r[i].cmd, r[i].label, r[i].n>>]

FrameCommands ==
    << <<"cmdBeginRendering", "", 0>>,
       <<"cmdBindRenderPipeline", "pipeline", 0>>,
       <<"cmdDraw", "", 36>>,
       <<"cmdBindRenderPipeline", "wireframePipeline", 0>>,
       <<"cmdDraw", "", 36>>,
       <<"cmdEndRendering", "", 0>> >>

IsPrefix(a, b) == Len(a) <= Len(b) /\ \A i \in DOMAIN a : a[i] = b[i]

InFrame == mpc \in {"begin", "cube", "wireframe", "end", "submit"}

\* C5: every iteration of run that acquires a command buffer records exactly
\* begin, bind solid, draw 36, bind wireframe, draw 36, end, and submits the
\* buffer once; no draw lies outside the begin/end pair and no acquired
\* buffer stays unsubmitted.
C5_FrameSequence ==
    /\ IsPrefix(Rendering(cmds), FrameCommands)
    /\ (mpc \in {"submit", "run", "done"} /\ acquired > 0) => Rendering(cmds) = FrameCommands
    /\ InFrame => acquired = submitted + 1
    /\ ~InFrame => acquired = submitted
    /\ \A i \in DOMAIN cmds : cmds[i].cmd = "cmdDraw" =>
          /\ \E b \in 1 .. i - 1 : cmds[b].cmd = "cmdBeginRendering"
          /\ \A e \in 1 .. i - 1 : cmds[e].cmd # "cmdEndRendering"
          /\ cmds[i].n = CUBE_TRIANGLES

C5_Witness == mpc = "done" /\ submitted = 2 /\ pipeline.set

\* C6: the steps of one entry-point compilation run in the order open, load,
\* find, compose, link, getCode, copy; a step runs only after every earlier
\* step succeeded; the first failing step ends the call with false; the
\* fragment stage starts only after the vertex stage succeeded; the call
\* returns true exactly when every stage succeeded.
StageDone(st) ==
    \E i \in Copies : trace[i].stage = st /\ trace[i].ok

C6_StepOrder ==
    /\ \A i \in DOMAIN trace : i < Len(trace) => trace[i].ok
    /\ \A i \in DOMAIN trace :
          IF i = 1 \/ trace[i].stage # trace[i - 1].stage
          THEN /\ trace[i].step = "open"
               /\ i > 1 => /\ lastCall.fn = "compileVertexFragment"
                           /\ trace[i - 1].stage = "vertex" /\ trace[i].stage = "fragment"
                           /\ trace[i - 1].step = "copy"
          ELSE /\ trace[i - 1].step # "copy"
               /\ StepIndex(trace[i].step) = StepIndex(trace[i - 1].step) + 1
    /\ (trace # <<>> /\ lastCall.fn = "compileVertexFragment") => trace[1].stage = "vertex"
    /\ (trace # <<>> /\ ~LastStep.ok) => (pc = "idle" /\ ~ret)
    /\ pc # "idle" =>
          /\ lastCall.fn \in CompileFns
          /\ (trace = <<>> \/ LastStep.step = "copy") => pc = "open"
          /\ (trace # <<>> /\ LastStep.step # "copy") =>
                pc = StepOrder[StepIndex(LastStep.step) + 1]
    /\ (CompileReturned /\ lastCall.fn = "compileToSPIRV") =>
          (ret <=> (trace # <<>> /\ LastStep.step = "copy" /\ LastStep.ok))
    /\ (CompileReturned /\ lastCall.fn = "compileVertexFragment") =>
          (ret <=> (StageDone("vertex") /\ StageDone("fragment")))

C6_Witness ==
    /\ CompileReturned /\ lastCall.fn = "compileVertexFragment" /\ ~ret
    /\ StageDone("vertex")
    /\ LastStep.stage = "fragment" /\ LastStep.step = "compose"

\* C7: a compile call on a compiler that was not initialized when the call
\* began returns false with "Compiler not initialized", runs no step and
\* leaves the output vectors, the sessions and lastDiagnostics as they were.
C7_NotInitialized ==
    (lastCall.fn \in CompileFns /\ ~pre.initialized) =>
        /\ pc = "idle"
        /\ ~ret
        /\ Plain(outErrorMsg) = <<"Compiler not initialized">>
        /\ trace = <<>>
        /\ outSpirv = pre.outSpirv
        /\ lastDiagnostics = pre.lastDiagnostics
        /\ globalSession = pre.globalSession /\ session = pre.session
        /\ created = pre.created
        /\ ~initialized

C7_Witness ==
    /\ lastCall.fn = "compileVertexFragment" /\ ~pre.initialized
    /\ pre.lastDiagnostics # <<>>

\* C8: after a compile call returns, getLastDiagnostics() holds no text that
\* was produced before that call began.
C8_OnlyThisCallsDiagnostics ==
    CompileReturned =>
        \A i \in DOMAIN GetLastDiagnostics : GetLastDiagnostics[i].call = callNo

\* C9: initialized becomes true only in an initialize call that created both
\* sessions and never becomes false again; an initialize call on an
\* initialized compiler returns true, creates nothing and leaves
\* globalSession, session and lastDiagnostics unchanged, whatever its target;
\* a failed initialize leaves initialized false, and the next initialize
\* attempts the creation again.
C9_InitializeIdempotent ==
    /\ pre.initialized => initialized
    /\ (initialized /\ ~pre.initialized) =>
          /\ lastCall.fn = "initialize" /\ ret
          /\ created.global = pre.created.global + 1
          /\ created.session = pre.created.session + 1
          /\ globalSession = created.global
          /\ session = [id |-> created.session, target |-> lastCall.target]
    /\ (lastCall.fn = "initialize" /\ pre.initialized) =>
          /\ ret
          /\ created = pre.created
          /\ globalSession = pre.globalSession
          /\ session = pre.session
          /\ lastDiagnostics = pre.lastDiagnostics
    /\ (lastCall.fn = "initialize" /\ ~ret) => ~initialized
    /\ (lastCall.fn = "initialize" /\ ~pre.initialized /\ ~ret) =>
          /\ Plain(lastDiagnostics) \in {<<"Failed to create Slang global session">>,
                                         <<"Failed to create Slang session">>}
          /\ lastDiagnostics[1].call = callNo
    /\ (lastCall.fn = "initialize" /\ ~pre.initialized /\ ret) => initialized

C9_Witness ==
    /\ lastCall.fn = "initialize" /\ pre.initialized /\ ret
    /\ lastCall.target # session.target

=============================================================================
